---- MODULE Spec2Model ----
(***************************************************************************)
(* Model of include/chrds.hpp (namespace chrds::midi): the MessageView     *)
(* over a 3-byte window of a caller-owned buffer, and the MessagesView     *)
(* with its MessageIterator over a buffer of 3-byte records.               *)
(*                                                                         *)
(* The byte type T is instantiated as std::uint8_t: a byte is a value in   *)
(* 0..255.  Positions are byte offsets from the start of the buffer, the   *)
(* way a std::span iterator is an address inside the span.                 *)
(***************************************************************************)
EXTENDS Integers, Sequences, FiniteSets, TLC

VARIABLES
    ndebug,   \* TRUE when the build defines NDEBUG (assert expands to nothing)
    buf,      \* the caller's byte buffer
    seq,      \* outcome of constructing MessagesView over buf
    it,       \* MessageIterator::_span_it of the caller's first iterator
    other,    \* MessageIterator::_span_it of the caller's second iterator
    mv,       \* MessageView::_data: offset of the 3-byte window
    call,     \* the last call the caller made and what it observed
    prev      \* the call the caller had observed before its last write

vars == <<ndebug, buf, seq, it, other, mv, call, prev>>

-----------------------------------------------------------------------------
(* Bounds of the model *)

\* longest buffer handed to MessagesView
MaxLen == 10
\* largest magnitude of a signed offset passed to the iterator arithmetic
MaxDelta == 3
\* number of records of the buffer the caller rewrites
LiveRecords == 1

-----------------------------------------------------------------------------
(* Values *)

Byte == 0..255

\* an object that has not been created
None == -1

\* enum class MessageKind, with the values the enumerators get
NoteOff == 0
NoteOn == 1
PolyAftertouch == 2
ControlChange == 3
ProgramChange == 4
ChannelAftertouch == 5
PitchWheel == 6
SystemExclusive == 7

MessageKind == NoteOff..SystemExclusive

\* a call that returned v
Ret(v) == [outcome |-> "return", value |-> v]
\* a call left by throw InvalidMidiData()
InvalidMidiData == [outcome |-> "InvalidMidiData", value |-> 0]
\* construction left by throw InvalidMidiDataLength()
InvalidMidiDataLength == [outcome |-> "InvalidMidiDataLength", value |-> 0]
\* a failed assert: the process is aborted
Abort == [outcome |-> "abort", value |-> 0]

-----------------------------------------------------------------------------
(* Integer conversions and bit operations, as the C++ expressions compute   *)
(* them                                                                     *)

\* static_cast<std::uint8_t>(x)
ToU8(x) == x % 256
\* static_cast<std::uint16_t>(x)
ToU16(x) == x % 65536
\* static_cast<std::int16_t>(x): modulo 2^16 into -32768..32767
ToI16(x) == LET m == x % 65536 IN IF m >= 32768 THEN m - 65536 ELSE m

\* a & b on non-negative integers
RECURSIVE BitAnd(_, _)
BitAnd(a, b) ==
    IF a = 0 \/ b = 0 THEN 0
    ELSE (a % 2) * (b % 2) + 2 * BitAnd(a \div 2, b \div 2)

\* x << n on int
RECURSIVE Shl(_, _)
Shl(x, n) == IF n = 0 THEN x ELSE Shl(2 * x, n - 1)

\* a / b of C++ (truncation toward zero), b > 0
CDiv(a, b) == IF a >= 0 THEN a \div b ELSE -((-a) \div b)

-----------------------------------------------------------------------------
(* MessageView<T>: v is the offset of its span<T, 3> in the buffer          *)

\* status() reading the second byte of the window
status_second(v) == buf[v + 2]

status(v) == buf[v + 1]
data_0(v) == buf[v + 2]
data_1(v) == buf[v + 3]

\* kind() with the NoteOff and NoteOn cases exchanged
kind_swapped(v) ==
    LET n == BitAnd(ToU8(status(v)), \Hf0) IN
    CASE n = \H80 -> Ret(NoteOn)
      [] n = \H90 -> Ret(NoteOff)
      [] n = \Ha0 -> Ret(PolyAftertouch)
      [] n = \Hb0 -> Ret(ControlChange)
      [] n = \Hc0 -> Ret(ProgramChange)
      [] n = \Hd0 -> Ret(ChannelAftertouch)
      [] n = \He0 -> Ret(PitchWheel)
      [] n = \Hf0 -> Ret(SystemExclusive)
      [] OTHER -> InvalidMidiData

kind(v) ==
    LET n == BitAnd(ToU8(status(v)), \Hf0) IN
    CASE n = \H80 -> Ret(NoteOff)
      [] n = \H90 -> Ret(NoteOn)
      [] n = \Ha0 -> Ret(PolyAftertouch)
      [] n = \Hb0 -> Ret(ControlChange)
      [] n = \Hc0 -> Ret(ProgramChange)
      [] n = \Hd0 -> Ret(ChannelAftertouch)
      [] n = \He0 -> Ret(PitchWheel)
      [] n = \Hf0 -> Ret(SystemExclusive)
      [] OTHER -> InvalidMidiData

\* CHRDS_ASSERT(expression); rest
\* cond is the evaluation of the expression (1 or 0, or the exception it
\* throws), rest what the function does after the assertion
CHRDS_ASSERT(cond, rest) ==
    IF ndebug THEN rest
    ELSE IF cond.outcome # "return" THEN cond
    ELSE IF cond.value = 0 THEN Abort
    ELSE rest

\* std::ranges::find(expected_kinds, kind()) != expected_kinds.end()
KindIn(v, expected_kinds) ==
    LET k == kind(v) IN
    IF k.outcome # "return" THEN k
    ELSE Ret(IF k.value \in expected_kinds THEN 1 ELSE 0)

channel(v) ==
    CHRDS_ASSERT(KindIn(v, MessageKind \ {SystemExclusive}),
                 Ret(BitAnd(ToU8(status(v)), \H0f)))

note(v) ==
    CHRDS_ASSERT(KindIn(v, {NoteOff, NoteOn, PolyAftertouch}),
                 Ret(ToU8(data_0(v))))

\* velocity() reading the first data byte
velocity_data_0(v) ==
    CHRDS_ASSERT(KindIn(v, {NoteOff, NoteOn}),
                 Ret(ToU8(data_0(v))))

velocity(v) ==
    CHRDS_ASSERT(KindIn(v, {NoteOff, NoteOn}),
                 Ret(ToU8(data_1(v))))

\* pressure() with the data bytes of the two aftertouch kinds exchanged
pressure_swapped(v) ==
    LET k == kind(v) IN
    IF k.outcome # "return" THEN k
    ELSE CASE k.value = PolyAftertouch -> Ret(ToU8(data_1(v)))
           [] k.value = ChannelAftertouch -> Ret(ToU8(data_0(v)))
           [] OTHER -> CHRDS_ASSERT(Ret(0), Ret(0))

pressure(v) ==
    LET k == kind(v) IN
    IF k.outcome # "return" THEN k
    ELSE CASE k.value = PolyAftertouch -> Ret(ToU8(data_0(v)))
           [] k.value = ChannelAftertouch -> Ret(ToU8(data_1(v)))
           [] OTHER -> CHRDS_ASSERT(Ret(0), Ret(0))

cc_controller(v) ==
    CHRDS_ASSERT(KindIn(v, {ControlChange}), Ret(ToU8(data_0(v))))

cc_value(v) ==
    CHRDS_ASSERT(KindIn(v, {ControlChange}), Ret(ToU8(data_1(v))))

program_number(v) ==
    CHRDS_ASSERT(KindIn(v, {ProgramChange}), Ret(ToU8(data_0(v))))

\* pitch_wheel() guarded by the assertion the other accessors have
pitch_wheel_asserted(v) ==
    CHRDS_ASSERT(KindIn(v, {PitchWheel}),
                 Ret(ToI16(Shl(ToU16(data_1(v)), 8) + ToU16(data_0(v)))))

\* pitch_wheel() with data_0 as the high byte
pitch_wheel_swapped(v) ==
    Ret(ToI16(Shl(ToU16(data_0(v)), 8) + ToU16(data_1(v))))

pitch_wheel(v) ==
    Ret(ToI16(Shl(ToU16(data_1(v)), 8) + ToU16(data_0(v))))

-----------------------------------------------------------------------------
(* The caller's record of a call *)

NoCall == [op |-> "none", arg |-> 0, from |-> None,
           outcome |-> "return", value |-> 0]

\* the call op(arg), made on the object at offset from, observed r
Observed(op, arg, from, r) ==
    [op |-> op, arg |-> arg, from |-> from,
     outcome |-> r.outcome, value |-> r.value]

\* a failed assert ends the process: nothing runs after it
Running == call.outcome # "abort"

\* the caller calls an accessor of the message view and keeps the result
Accessor(op, r) ==
    /\ Running
    /\ mv # None
    /\ call' = Observed(op, 0, mv, r)
    /\ UNCHANGED <<ndebug, buf, seq, it, other, mv, prev>>

CallStatus == Accessor("status", Ret(status(mv)))
CallData0 == Accessor("data_0", Ret(data_0(mv)))
CallData1 == Accessor("data_1", Ret(data_1(mv)))
CallKind == Accessor("kind", kind(mv))
CallChannel == Accessor("channel", channel(mv))
CallNote == Accessor("note", note(mv))
CallVelocity == Accessor("velocity", velocity(mv))
CallPressure == Accessor("pressure", pressure(mv))
CallCcController == Accessor("cc_controller", cc_controller(mv))
CallCcValue == Accessor("cc_value", cc_value(mv))
CallProgramNumber == Accessor("program_number", program_number(mv))
CallPitchWheel == Accessor("pitch_wheel", pitch_wheel(mv))

-----------------------------------------------------------------------------
(* One message view over a 3-byte record: every status byte, sampled data   *)

\* data bytes of the records: the bytes of the documented records, the
\* largest MIDI data byte, and bytes with the top bit set
DataSample == {\H00, \H01, \H02, \H3c, \H64, \H7f, \H80, \Hff}

\* MessageView(std::span<T, 3> data): the view over the whole record
InitMessage(statuses, datas) ==
    /\ ndebug \in BOOLEAN
    /\ \E s \in statuses, d0 \in datas, d1 \in datas : buf = <<s, d0, d1>>
    /\ seq = "none"
    /\ it = None
    /\ other = None
    /\ mv = 0
    /\ call = NoCall
    /\ prev = NoCall

InitKind == InitMessage(Byte, DataSample)

NextKind ==
    \/ CallStatus
    \/ CallData0
    \/ CallData1
    \/ CallKind
    \/ CallChannel
    \/ CallNote
    \/ CallVelocity
    \/ CallPressure
    \/ CallCcController
    \/ CallCcValue
    \/ CallProgramNumber
    \/ CallPitchWheel

SpecKind == InitKind /\ [][NextKind]_vars

-----------------------------------------------------------------------------
(* MessagesView<T> and MessagesView<T>::MessageIterator: p and q are the    *)
(* offsets of _span_it in the buffer                                        *)

\* the constructor also rejecting the empty buffer
MessagesView_nonempty(data) ==
    IF Len(data) % 3 # 0 \/ Len(data) = 0 THEN InvalidMidiDataLength
    ELSE Ret(0)

\* MessagesView(std::span<T> data)
MessagesView(data) ==
    IF Len(data) % 3 # 0 THEN InvalidMidiDataLength ELSE Ret(0)

\* operator++(): _span_it += 3
operator_inc(p) == p + 3
\* operator++(int): the copy it returns and the iterator afterwards
operator_post_inc(p) == [copy |-> p, self |-> operator_inc(p)]
\* operator--(): _span_it -= 3
operator_dec(p) == p - 3
\* operator--(int)
operator_post_dec(p) == [copy |-> p, self |-> operator_dec(p)]
\* the difference in bytes
operator_diff_bytes(p, q) == p - q
\* operator-(const MessageIterator& other)
operator_diff(p, q) == CDiv(p - q, 3)
\* operator-(const difference_type delta)
operator_minus(p, delta) == p - 3 * delta
\* friend operator-(const difference_type delta, const MessageIterator& iter)
friend_minus(delta, p) == operator_minus(p, delta)
\* operator-= stepping by delta bytes
operator_sub_assign_bytes(p, delta) == p - delta
\* operator-=(const difference_type delta)
operator_sub_assign(p, delta) == p - delta * 3
\* operator+ stepping by delta bytes
operator_plus_bytes(p, delta) == p + delta
\* operator+(const difference_type delta)
operator_plus(p, delta) == p + 3 * delta
\* friend operator+(const difference_type delta, const MessageIterator& iter)
friend_plus(delta, p) == operator_plus(p, delta)
\* operator+=(const difference_type delta)
operator_add_assign(p, delta) == p + delta * 3
\* operator*(): the message view over span<T, 3>(_span_it, 3)
operator_star(p) == p
\* operator[](difference_type delta)
operator_subscript(p, delta) == operator_star(operator_plus(p, delta))
\* operator<=>, defaulted: the order of the _span_it members
operator_cmp(p, q) == IF p < q THEN -1 ELSE IF p = q THEN 0 ELSE 1

\* a span iterator is defined from the start of the span to one past its end
InSpan(p) == 0 <= p /\ p <= Len(buf)
\* span<T, 3>(p, 3) is defined when the three bytes are inside the span
Dereferenceable(p) == 0 <= p /\ p + 3 <= Len(buf)

Delta == -MaxDelta..MaxDelta

\* the caller constructs the sequence view over its buffer
Construct ==
    /\ Running
    /\ seq = "none"
    /\ LET r == MessagesView(buf) IN
       /\ seq' = r.outcome
       /\ call' = Observed("MessagesView", 0, None, r)
    /\ UNCHANGED <<ndebug, buf, it, other, mv, prev>>

\* MessageIterator{_data.begin()}: the position of the first element
Begin ==
    /\ Running
    /\ seq = "return"
    /\ it' = 0
    /\ call' = Observed("begin", 0, None, Ret(0))
    /\ UNCHANGED <<ndebug, buf, seq, other, mv, prev>>

\* an operation that moves the first iterator to p
Move(op, arg, p) ==
    /\ Running
    /\ it # None
    /\ InSpan(p)
    /\ it' = p
    /\ call' = Observed(op, arg, it, Ret(0))
    /\ UNCHANGED <<ndebug, buf, seq, other, mv, prev>>

\* an operation that returns a new iterator at p, kept as the second one
Make(op, arg, p) ==
    /\ Running
    /\ it # None
    /\ InSpan(p)
    /\ other' = p
    /\ call' = Observed(op, arg, it, Ret(0))
    /\ UNCHANGED <<ndebug, buf, seq, it, mv, prev>>

\* a postfix operation: the copy is kept as the second iterator
MovePost(op, r) ==
    /\ Running
    /\ it # None
    /\ InSpan(r.self)
    /\ it' = r.self
    /\ other' = r.copy
    /\ call' = Observed(op, 0, it, Ret(0))
    /\ UNCHANGED <<ndebug, buf, seq, mv, prev>>

PreInc == Move("++", 0, operator_inc(it))
PostInc == MovePost("++(int)", operator_post_inc(it))
PreDec == Move("--", 0, operator_dec(it))
PostDec == MovePost("--(int)", operator_post_dec(it))
AddAssign == \E k \in Delta : Move("+=", k, operator_add_assign(it, k))
SubAssign == \E k \in Delta : Move("-=", k, operator_sub_assign(it, k))
Plus == \E k \in Delta : Make("+", k, operator_plus(it, k))
FriendPlus == \E k \in Delta : Make("friend+", k, friend_plus(k, it))
Minus == \E k \in Delta : Make("-", k, operator_minus(it, k))
FriendMinus == \E k \in Delta : Make("friend-", k, friend_minus(k, it))

\* it - other
Difference ==
    /\ Running
    /\ it # None
    /\ other # None
    /\ call' = Observed("distance", 0, it, Ret(operator_diff(it, other)))
    /\ UNCHANGED <<ndebug, buf, seq, it, other, mv, prev>>

\* it <=> other
Compare ==
    /\ Running
    /\ it # None
    /\ other # None
    /\ call' = Observed("<=>", 0, it, Ret(operator_cmp(it, other)))
    /\ UNCHANGED <<ndebug, buf, seq, it, other, mv, prev>>

\* *it
Star ==
    /\ Running
    /\ it # None
    /\ Dereferenceable(it)
    /\ mv' = operator_star(it)
    /\ call' = Observed("*", 0, it, Ret(0))
    /\ UNCHANGED <<ndebug, buf, seq, it, other, prev>>

\* it[k]
Subscript ==
    \E k \in Delta :
        /\ Running
        /\ it # None
        /\ InSpan(operator_plus(it, k))
        /\ Dereferenceable(operator_plus(it, k))
        /\ mv' = operator_subscript(it, k)
        /\ call' = Observed("[]", k, it, Ret(0))
        /\ UNCHANGED <<ndebug, buf, seq, it, other, prev>>

\* the bytes the caller writes: a NoteOn status byte and a data byte
WriteBytes == {\H90, \H00}

\* the caller writes byte b at index i of its buffer
Write ==
    \E i \in 1..Len(buf), b \in WriteBytes :
        /\ Running
        /\ buf' = [buf EXCEPT ![i] = b]
        /\ call' = Observed("write", i, None, Ret(b))
        /\ prev' = IF call.op = "write" THEN prev ELSE call
        /\ UNCHANGED <<ndebug, seq, it, other, mv>>

-----------------------------------------------------------------------------
(* A sequence view over buffers of every length up to MaxLen (SpecSeq)      *)

\* first bytes of the buffers; byte i of a buffer is first + i modulo 256
SeqFirst == {\H00, \H90, \Hfd}

Filled(first, n) == [i \in 1..n |-> (first + i - 1) % 256]

InitSeq ==
    /\ ndebug \in BOOLEAN
    /\ \E n \in 0..MaxLen, first \in SeqFirst : buf = Filled(first, n)
    /\ seq = "none"
    /\ it = None
    /\ other = None
    /\ mv = None
    /\ call = NoCall
    /\ prev = NoCall

NextSeq ==
    \/ Construct
    \/ Begin
    \/ PreInc
    \/ PostInc
    \/ PreDec
    \/ PostDec
    \/ AddAssign
    \/ SubAssign
    \/ Plus
    \/ FriendPlus
    \/ Minus
    \/ FriendMinus
    \/ Difference
    \/ Compare
    \/ Star
    \/ Subscript

SpecSeq == InitSeq /\ [][NextSeq]_vars

-----------------------------------------------------------------------------
(* Properties of the accessors of one message view (SpecKind)               *)

\* the record under the message view
Status == buf[mv + 1]
D0 == buf[mv + 2]
D1 == buf[mv + 3]
TopNibble == Status \div 16

\* the mapping table of the top nibble
KindTable ==
    (8 :> NoteOff) @@ (9 :> NoteOn) @@ (10 :> PolyAftertouch) @@
    (11 :> ControlChange) @@ (12 :> ProgramChange) @@
    (13 :> ChannelAftertouch) @@ (14 :> PitchWheel) @@
    (15 :> SystemExclusive)

\* C1: kind() returns the kind the table gives for the top nibble of the
\* status byte when the top bit is set, whatever the data bytes are, and
\* reports InvalidMidiData when the top bit is clear.
C1_KindTable ==
    call.op = "kind" =>
        IF Status >= 128
        THEN call.outcome = "return" /\ call.value = KindTable[TopNibble]
        ELSE call.outcome = "InvalidMidiData"

\* kind() on the record [0x00, 0x01, 0x02] reported InvalidMidiData
C1_Witness ==
    /\ call.op = "kind"
    /\ buf = <<0, 1, 2>>
    /\ call.outcome = "InvalidMidiData"

\* C5: on a NoteOn or NoteOff record note() returns data_0, velocity()
\* returns data_1 and channel() returns the low nibble of the status byte,
\* a value in 0..15, and none of them aborts or throws.
C5_NoteFields ==
    TopNibble \in {8, 9} =>
        /\ call.op = "note" => call.outcome = "return" /\ call.value = D0
        /\ call.op = "velocity" => call.outcome = "return" /\ call.value = D1
        /\ call.op = "channel" =>
              /\ call.outcome = "return"
              /\ call.value = Status % 16
              /\ call.value \in 0..15

\* velocity() on the record [0x90, 0x3C, 0x64] returned 100
C5_Witness ==
    /\ call.op = "velocity"
    /\ buf = <<\H90, \H3c, \H64>>
    /\ ~ndebug
    /\ call.outcome = "return"
    /\ call.value = 100

\* C7: pressure() returns data_0 for PolyAftertouch and data_1 for
\* ChannelAftertouch; for every other valid kind it fails the assertion
\* (the process aborts when assertions are compiled in, and the call
\* returns 0 when they are not) and never throws.
C7_Pressure ==
    (call.op = "pressure" /\ Status >= 128) =>
        CASE TopNibble = 10 -> call.outcome = "return" /\ call.value = D0
          [] TopNibble = 13 -> call.outcome = "return" /\ call.value = D1
          [] OTHER ->
               /\ call.outcome \notin {"InvalidMidiData", "InvalidMidiDataLength"}
               /\ ~ndebug => call.outcome = "abort"
               /\ ndebug => call.outcome = "return" /\ call.value = 0

\* pressure() on a NoteOn record tripped the assertion
C7_Witness ==
    /\ call.op = "pressure"
    /\ TopNibble = 9
    /\ ~ndebug
    /\ call.outcome = "abort"

\* the accessors that evaluate kind()
KindChecked ==
    {"channel", "note", "velocity", "pressure", "cc_controller", "cc_value",
     "program_number"}

\* C8: pitch_wheel() returns the 16-bit recombination of data_1 and data_0
\* for every status byte, without aborting or throwing, and the result is
\* a function of the data bytes alone; each other kind-specific accessor
\* does not return on a status byte with the top bit clear when assertions
\* are compiled in.
C8_PitchWheelUnchecked ==
    /\ call.op = "pitch_wheel" =>
          /\ call.outcome = "return"
          /\ LET r == 256 * D1 + D0 IN
             call.value = IF r > 32767 THEN r - 65536 ELSE r
    /\ (call.op \in KindChecked /\ ~ndebug /\ Status < 128) =>
          call.outcome = "InvalidMidiData"

\* pitch_wheel() returned on a status byte with the top bit clear, in a
\* build with assertions
C8_Witness ==
    /\ call.op = "pitch_wheel"
    /\ Status < 128
    /\ ~ndebug
    /\ call.outcome = "return"

-----------------------------------------------------------------------------
(* Pitch wheel records with every pair of data bytes (SpecPitch)            *)

\* status bytes of PitchWheel records: the first and the last channel
PitchStatus == {\He0, \Hef}

InitPitch == InitMessage(PitchStatus, Byte)

NextPitch ==
    \/ CallKind
    \/ CallPitchWheel

SpecPitch == InitPitch /\ [][NextPitch]_vars

\* a | b on non-negative integers
RECURSIVE BitOr(_, _)
BitOr(a, b) ==
    IF a = 0 THEN b
    ELSE IF b = 0 THEN a
    ELSE (IF a % 2 = 1 \/ b % 2 = 1 THEN 1 ELSE 0)
         + 2 * BitOr(a \div 2, b \div 2)

\* C4 as stated: on a PitchWheel record pitch_wheel() is the integer
\* (d1 << 8) | d0 for all data bytes.
C4_Original ==
    (call.op = "pitch_wheel" /\ TopNibble = 14) =>
        call.value = BitOr(D1 * 256, D0)

\* C4: on a PitchWheel record pitch_wheel() is (d1 << 8) | d0 read as a
\* signed 16-bit integer: that integer when d1 <= 127, and that integer
\* minus 65536 when d1 >= 128.
C4_PitchWheelSigned ==
    (call.op = "pitch_wheel" /\ TopNibble = 14) =>
        /\ call.outcome = "return"
        /\ D1 <= 127 => call.value = BitOr(D1 * 256, D0)
        /\ D1 >= 128 => call.value = BitOr(D1 * 256, D0) - 65536

\* pitch_wheel() on the record [0xE0, 0x00, 0x40] returned 16384
C4_Witness ==
    /\ call.op = "pitch_wheel"
    /\ buf = <<\He0, \H00, \H40>>
    /\ call.outcome = "return"
    /\ call.value = 16384

-----------------------------------------------------------------------------
(* Properties of the sequence view and its positions (SpecSeq)              *)

\* number of 3-byte records of the buffer
ElementCount == Len(buf) \div 3

\* the bytes under the message view
Record == <<status(mv), data_0(mv), data_1(mv)>>

\* C2: construction fails with InvalidMidiDataLength for every length that
\* is not a multiple of 3 and succeeds for every multiple of 3, the empty
\* buffer included, whatever the bytes are.
C2_LengthCheck ==
    seq # "none" =>
        IF Len(buf) \in {3 * k : k \in 0..MaxLen}
        THEN seq = "return"
        ELSE seq = "InvalidMidiDataLength"

\* construction over a buffer of 7 bytes failed
C2_Witness ==
    /\ call.op = "MessagesView"
    /\ Len(buf) = 7
    /\ seq = "InvalidMidiDataLength"

\* what C3 says of the state after a call
C3_AfterCall ==
    seq = "return" =>
        /\ Len(buf) = 3 * ElementCount
        /\ call.op = "begin" => it = 0
        /\ (call.op = "[]" /\ call.from = 0) =>
              LET i == call.arg IN
              /\ i \in 0..(ElementCount - 1)
              /\ mv = 3 * i
              /\ Record = <<buf[3 * i + 1], buf[3 * i + 2], buf[3 * i + 3]>>
        /\ call.op = "*" =>
              \E i \in 0..(ElementCount - 1) :
                  /\ it = 3 * i
                  /\ Record = <<buf[3 * i + 1], buf[3 * i + 2], buf[3 * i + 3]>>

C6_RoundTripAndDistance ==
    [][/\ (call.op = "++" /\ call'.op = "--") => it' = call.from
       /\ (call.op = "++(int)" /\ call'.op = "--(int)") => it' = call.from
       /\ (call.op = "+=" /\ call'.op = "+=" /\ call'.arg = -call.arg)
             => it' = call.from
       /\ (call.op = "+=" /\ call'.op = "-=" /\ call'.arg = call.arg)
             => it' = call.from
       /\ call'.op = "distance" =>
             \E i \in 0..ElementCount, j \in 0..ElementCount :
                 /\ it' = 3 * i
                 /\ other' = 3 * j
                 /\ call'.value = i - j]_vars

\* the distance of position 0 from position 2 was -2
C6_Witness ==
    /\ call.op = "distance"
    /\ it = 0
    /\ other = 6
    /\ call.value = -2

\* C10: every position reached from the first one by the stepping and
\* arithmetic operators is at a byte offset that is a multiple of 3, so the
\* distance divides exactly and the windows of two positions are the same
\* or disjoint.
C10_Alignment ==
    /\ it # None => it % 3 = 0
    /\ other # None => other % 3 = 0
    /\ mv # None => mv % 3 = 0
    /\ (it # None /\ other # None) =>
          /\ (it - other) % 3 = 0
          /\ \/ it = other
             \/ {it, it + 1, it + 2} \cap {other, other + 1, other + 2} = {}

\* the first iterator was moved by -= with a negative offset, away from the
\* second one
C10_Witness ==
    /\ call.op = "-="
    /\ call.arg < 0
    /\ it = 6
    /\ other = 3

-----------------------------------------------------------------------------
(* The caller rewrites the buffer under the views (SpecLive)                *)

InitLive ==
    /\ ndebug \in BOOLEAN
    /\ buf \in [1..(3 * LiveRecords) -> WriteBytes]
    /\ seq = "none"
    /\ it = None
    /\ other = None
    /\ mv = None
    /\ call = NoCall
    /\ prev = NoCall

NextLive ==
    \/ Construct
    \/ Begin
    \/ PreInc
    \/ PreDec
    \/ Star
    \/ Subscript
    \/ Write
    \/ CallStatus
    \/ CallData0
    \/ CallData1
    \/ CallKind
    \/ CallNote
    \/ CallPitchWheel

SpecLive == InitLive /\ [][NextLive]_vars

\* what the caller observes of a call
Seen(c) == <<c.outcome, c.value>>

\* C9: every accessor call and every dereference gives the value of the
\* buffer's bytes at the time of the call, whatever the caller wrote
\* before, and only the caller's writes change the buffer.
C9_LiveBorrow ==
    [][/\ call'.op # "write" => buf' = buf
       /\ call'.op = "status" => Seen(call') = <<"return", buf'[mv' + 1]>>
       /\ call'.op = "data_0" => Seen(call') = <<"return", buf'[mv' + 2]>>
       /\ call'.op = "data_1" => Seen(call') = <<"return", buf'[mv' + 3]>>
       /\ call'.op = "kind" =>
             Seen(call') = IF buf'[mv' + 1] >= 128
                           THEN <<"return", KindTable[buf'[mv' + 1] \div 16]>>
                           ELSE <<"InvalidMidiData", 0>>
       /\ call'.op = "*" => mv' = it']_vars

\* kind() reported InvalidMidiData on the view on which it had returned
\* NoteOn before the caller rewrote the status byte
C9_Witness ==
    /\ call.op = "kind"
    /\ call.outcome = "InvalidMidiData"
    /\ prev.op = "kind"
    /\ prev.outcome = "return"
    /\ prev.value = NoteOn
    /\ prev.from = call.from
    /\ buf[mv + 1] = 0

====
